---- MODULE Spec2Model ----
(***************************************************************************)
(* A model of the Advent-of-Code harness (Python/advent.py) and of three   *)
(* of its day solutions (2019 day 1, 2020 day 12, 2020 day 15).            *)
(*                                                                         *)
(* Text is modelled as a sequence of one-character strings, so that the    *)
(* conversions of the code (int(), str(), strip(), startswith(),           *)
(* replace(), readlines(), split(',')) are computed, not assumed.          *)
(***************************************************************************)
EXTENDS Integers, Sequences, FiniteSets, TLC

VARIABLES
    \* ---- 2019 day 1, part2 ----
    masses1,        \* the module masses the input lines were written from
    input1,         \* part2's argument: a list of lines
    idx1,           \* number of lines the for loop has taken
    mass1,          \* local `mass`
    sum1,           \* local `sum`
    result1,        \* the value returned
    pc1,            \* "for" | "while" | "done" | "raised"
    \* ---- 2020 day 12, part1 ----
    actions12,      \* the actions the input lines were written from
    input12,        \* part1's argument: a list of lines
    idx12,          \* number of lines the for loop has taken
    pos,            \* Ship.pos
    direction,      \* Ship.direction
    result12,       \* the value returned
    pc12,           \* "for" | "done" | "raised"
    \* ---- 2020 day 15, part1 ----
    numbers15,      \* the starting numbers the input line was written from
    input15,        \* part1's argument: a list of lines
    start15,        \* local `start`
    numbers_turns,  \* local dict `numbers_turns`: number -> list of turns
    last15,         \* local `last`
    i15,            \* play()'s local `i`
    count15,        \* number of values islice has taken from play()
    value15,        \* the value yielded last
    result15,       \* the value returned
    pc15,           \* "begin" | "play" (generator not started) | "first" |
                    \* "while" (suspended at that loop's yield) | "done" | "raised"
    game15,         \* the numbers a referee of the game has called so far
    \* ---- the harness, advent.py ----
    files,          \* the files on disk: absolute path -> content
    dirs,           \* the directories on disk
    run,            \* number of processes started so far
    args,           \* the parsed command line of the current process, and
                    \* the directory it was started in
    pc,             \* where the current process is: "idle" | "module" |
                    \* "typing" | "expecting" | "requesting" | "parse" |
                    \* "expect" | "import" | "part1" | "part2" | "moduleDone" | "exit" |
                    \* "failed" ("off" when the harness is not run)
    queue,          \* --run-all: the modules still to run
    curModule,      \* run_puzzle_module's `module`
    curDay,         \* run_puzzle_module's `day`
    puzzle,         \* the PuzzleData get_puzzle_data returned
    inputLines,     \* run_puzzle_module's `input`
    expected,       \* run_puzzle_module's `expected_result`
    opened,         \* the file contents get_data and get_expected_result read
    typed,          \* read_test_file: the lines read at the prompt so far
    call,           \* what the latest get_puzzle_data call did
    loaded,         \* the days get_puzzle_data was called for, in order
    executed,       \* the <<day, part>> whose solution was invoked, in order
    printed,        \* the lines printed, in order
    raised,         \* the exception that ended the process, if any
    entered         \* absolute path -> what the user typed when the fixture
                    \* now at that path was written

vars1 == <<masses1, input1, idx1, mass1, sum1, result1, pc1>>

vars12 == <<actions12, input12, idx12, pos, direction, result12, pc12>>

vars15 == <<numbers15, input15, start15, numbers_turns, last15, i15, count15,
            value15, result15, pc15, game15>>

varsH == <<files, dirs, run, args, pc, queue, curModule, curDay, puzzle,
           inputLines, expected, opened, typed, call, loaded, executed, printed,
           raised, entered>>

vars == <<vars1, vars12, vars15, varsH>>

\* What each program leaves alone: the other programs' state.
others1 == <<vars12, vars15, varsH>>
others12 == <<vars1, vars15, varsH>>
others15 == <<vars1, vars12, varsH>>
othersH == <<vars1, vars12, vars15>>

(***************************************************************************)
(* Text helpers.                                                           *)
(***************************************************************************)
DigitChars == <<"0", "1", "2", "3", "4", "5", "6", "7", "8", "9">>

IsDigit(c) == \E d \in 1..10 : DigitChars[d] = c

DigitVal(c) == (CHOOSE d \in 1..10 : DigitChars[d] = c) - 1

\* Texts are ASCII: a character outside ASCII cannot be told from another in a
\* string of this language, so the spaces and digits outside ASCII that
\* str.strip() and int() know are not in the alphabet of the model.
\*
\* The ASCII characters str.strip() and str.rstrip() remove (str.isspace): tab,
\* line feed, vertical tab, form feed, carriage return, the separators
\* U+001C..U+001F and space.
Whitespace == {"\t", "\n", "", "\f", "\r", "", "", "", "", " "}

\* The ASCII characters int() skips around a number: tab, line feed, vertical
\* tab, form feed, carriage return and space, but not U+001C..U+001F.
IntWhitespace == {"\t", "\n", "", "\f", "\r", " "}

RECURSIVE DropLeading(_, _)
DropLeading(s, blanks) ==
    IF s # <<>> /\ Head(s) \in blanks THEN DropLeading(Tail(s), blanks) ELSE s

RECURSIVE DropTrailing(_, _)
DropTrailing(s, blanks) ==
    IF s # <<>> /\ s[Len(s)] \in blanks
    THEN DropTrailing(SubSeq(s, 1, Len(s) - 1), blanks)
    ELSE s

\* str.lstrip()
LStrip(s) == DropLeading(s, Whitespace)

\* str.rstrip()
RStrip(s) == DropTrailing(s, Whitespace)

\* str.strip()
Strip(s) == RStrip(LStrip(s))

\* The text of a number as int() takes it: without the blanks around it.
IntStrip(s) == DropTrailing(DropLeading(s, IntWhitespace), IntWhitespace)

\* str.startswith(p)
StartsWith(s, p) == Len(s) >= Len(p) /\ SubSeq(s, 1, Len(p)) = p

\* str(n) for an integer n
RECURSIVE NatText(_)
NatText(n) ==
    IF n < 10 THEN <<DigitChars[n + 1]>>
    ELSE NatText(n \div 10) \o <<DigitChars[(n % 10) + 1]>>

IntText(n) == IF n < 0 THEN <<"-">> \o NatText(-n) ELSE NatText(n)

\* The digits of an int() literal: decimal digits, with single underscores
\* allowed between two digits ("1_0" is 10; "_1", "1_" and "1__0" are not).
IsDigitGroup(s) ==
    /\ s # <<>>
    /\ \A k \in 1..Len(s) :
          \/ IsDigit(s[k])
          \/ /\ s[k] = "_"
             /\ 1 < k /\ k < Len(s)
             /\ IsDigit(s[k - 1]) /\ IsDigit(s[k + 1])

\* The value of a digit group; underscores carry no value.
RECURSIVE DigitsValue(_)
DigitsValue(s) ==
    IF s = <<>> THEN 0
    ELSE IF s[Len(s)] = "_" THEN DigitsValue(SubSeq(s, 1, Len(s) - 1))
    ELSE 10 * DigitsValue(SubSeq(s, 1, Len(s) - 1)) + DigitVal(s[Len(s)])

\* Whether int(s) succeeds: surrounding blanks, an optional sign, digits.
IsIntText(s) ==
    LET t == IntStrip(s)
    IN  \/ IsDigitGroup(t)
        \/ t # <<>> /\ Head(t) \in {"-", "+"} /\ IsDigitGroup(Tail(t))

\* int(s)
ParseInt(s) ==
    LET t == IntStrip(s)
    IN  IF Head(t) = "-" THEN 0 - DigitsValue(Tail(t))
        ELSE IF Head(t) = "+" THEN DigitsValue(Tail(t))
        ELSE DigitsValue(t)

\* All sequences over S of length at most n.
SeqsUpTo(S, n) == UNION {[1..k -> S] : k \in 0..n}

(***************************************************************************)
(* 2019 day 1: fuel.                                                       *)
(***************************************************************************)
MaxLines1 == 2

Masses1 == {0, 2, 8, 9, 12, 14, 33, 1969, 100756}

\* A mutation of calculate_module_fuel: the subtraction is forgotten.
calculate_module_fuel_nosub(mass) == mass \div 3

calculate_module_fuel(mass) == (mass \div 3) - 2

\* The lines a list of masses is written as; eol: with the "\n" readlines keeps.
MassLines(ms, eol) ==
    [k \in 1..Len(ms) |-> IntText(ms[k]) \o (IF eol THEN <<"\n">> ELSE <<>>)]

\* What may follow the masses: nothing, an empty string, a blank line as read.
Trailers1 == {<<>>, << <<>> >>, << <<"\n">> >>}

\* Other spellings int() takes: an underscore between digits, a sign, blanks
\* around the number.
Spelled1 ==
    {[mass |-> 12, line |-> <<"1", "_", "2", "\n">>],
     [mass |-> 14, line |-> <<"\f", "+", "1", "4", " ">>],
     [mass |-> 1969, line |-> <<"1", "_", "9", "6", "9", "\r", "\n">>]}

InitDay1 ==
    /\ \/ \E ms \in SeqsUpTo(Masses1, MaxLines1), eol \in BOOLEAN, tr \in Trailers1 :
             /\ masses1 = ms
             /\ input1 = MassLines(ms, eol) \o tr
       \/ \E sp \in Spelled1 :
             /\ masses1 = <<sp.mass>>
             /\ input1 = <<sp.line>>
    /\ idx1 = 0
    /\ mass1 = 0
    /\ sum1 = 0
    /\ result1 = 0
    /\ pc1 = "for"

IdleDay1 ==
    /\ masses1 = <<>>
    /\ input1 = <<>>
    /\ idx1 = 0
    /\ mass1 = 0
    /\ sum1 = 0
    /\ result1 = 0
    /\ pc1 = "idle"

\* for line in input: if line == '': break   (then return sum)
D1Break ==
    /\ pc1 = "for"
    /\ idx1 < Len(input1)
    /\ input1[idx1 + 1] = <<>>
    /\ result1' = sum1
    /\ pc1' = "done"
    /\ UNCHANGED <<masses1, input1, idx1, mass1, sum1>>
    /\ UNCHANGED others1

\* mass = int(line) raises ValueError
D1ParseError ==
    /\ pc1 = "for"
    /\ idx1 < Len(input1)
    /\ input1[idx1 + 1] # <<>>
    /\ ~IsIntText(input1[idx1 + 1])
    /\ pc1' = "raised"
    /\ UNCHANGED <<masses1, input1, idx1, mass1, sum1, result1>>
    /\ UNCHANGED others1

\* mass = int(line)
D1Line ==
    /\ pc1 = "for"
    /\ idx1 < Len(input1)
    /\ input1[idx1 + 1] # <<>>
    /\ IsIntText(input1[idx1 + 1])
    /\ mass1' = ParseInt(input1[idx1 + 1])
    /\ idx1' = idx1 + 1
    /\ pc1' = "while"
    /\ UNCHANGED <<masses1, input1, sum1, result1>>
    /\ UNCHANGED others1

\* while (mass := calculate_module_fuel(mass)) > 0: sum += mass
D1While ==
    /\ pc1 = "while"
    /\ mass1' = calculate_module_fuel(mass1)
    /\ IF mass1' > 0
       THEN sum1' = sum1 + mass1' /\ pc1' = "while"
       ELSE sum1' = sum1 /\ pc1' = "for"
    /\ UNCHANGED <<masses1, input1, idx1, result1>>
    /\ UNCHANGED others1

\* return sum
D1Return ==
    /\ pc1 = "for"
    /\ idx1 = Len(input1)
    /\ result1' = sum1
    /\ pc1' = "done"
    /\ UNCHANGED <<masses1, input1, idx1, mass1, sum1>>
    /\ UNCHANGED others1

(***************************************************************************)
(* 2020 day 12: ship navigation.                                           *)
(***************************************************************************)
MaxActions12 == 3

\* The members of enum Direction.
Direction == {"N", "S", "E", "W", "L", "R", "F"}

cardinal_dirs_R == [d \in {"N", "E", "S", "W"} |->
    CASE d = "N" -> "E" [] d = "E" -> "S" [] d = "S" -> "W" [] d = "W" -> "N"]

cardinal_dirs_L == [d \in {"N", "E", "S", "W"} |->
    CASE d = "N" -> "W" [] d = "E" -> "N" [] d = "S" -> "E" [] d = "W" -> "S"]

\* for _ in range(n): d = table[d]      (range(n) is empty for n <= 0)
RECURSIVE Rotate(_, _, _)
Rotate(table, d, n) == IF n <= 0 THEN d ELSE Rotate(table, table[d], n - 1)

\* A mutation of the N/S/E/W branches of Ship.move: N moves like S.
MoveCardinalNorthAsSouth(p, d, dist) ==
    CASE d = "N" -> <<p[1], p[2] + dist>>
      [] d = "S" -> <<p[1], p[2] + dist>>
      [] d = "E" -> <<p[1] - dist, p[2]>>
      [] d = "W" -> <<p[1] + dist, p[2]>>

\* The N/S/E/W branches of Ship.move.
MoveCardinal(p, d, dist) ==
    CASE d = "N" -> <<p[1], p[2] - dist>>
      [] d = "S" -> <<p[1], p[2] + dist>>
      [] d = "E" -> <<p[1] - dist, p[2]>>
      [] d = "W" -> <<p[1] + dist, p[2]>>

\* Ship.move(action): the ship <<pos, direction>> after the action.
ShipMove(p, h, d, dist) ==
    IF d \in {"N", "S", "E", "W"} THEN <<MoveCardinal(p, d, dist), h>>
    ELSE IF d = "F" THEN <<MoveCardinal(p, h, dist), h>>
    ELSE IF d = "R" THEN <<p, Rotate(cardinal_dirs_R, h, dist \div 90)>>
    ELSE <<p, Rotate(cardinal_dirs_L, h, dist \div 90)>>

Abs(n) == IF n < 0 THEN 0 - n ELSE n

MoveDists12 == {1, 2}
\* The degrees of a turn: the multiples of 90 int() takes, negative ones too.
TurnDegrees12 == {-180, -90, 0, 90, 180, 270, 360}

Actions12 ==
    [d : {"N", "S", "E", "W", "F"}, n : MoveDists12]
        \cup [d : {"L", "R"}, n : TurnDegrees12]

Act(d, n) == [d |-> d, n |-> n]

Example12 == <<Act("F", 10), Act("N", 3), Act("F", 7), Act("R", 90), Act("F", 11)>>

\* The line an action is written as; eol: with the "\n" readlines keeps.
ActionLines(as, eol) ==
    [k \in 1..Len(as) |->
        <<as[k].d>> \o IntText(as[k].n) \o (IF eol THEN <<"\n">> ELSE <<>>)]

\* How the lines are given: with or without the "\n" readlines keeps, and what
\* follows the actions: nothing, an unknown letter, a missing number.
\* A malformed line is tried after at most this many actions.
MaxBeforeTrailer12 == 1

InputForms12 ==
    {[eol |-> FALSE, tr |-> <<>>],
     [eol |-> TRUE, tr |-> <<>>],
     [eol |-> TRUE, tr |-> << <<"X", "1">> >>],
     [eol |-> FALSE, tr |-> << <<"F">> >>]}

InitDay12 ==
    /\ \E as \in SeqsUpTo(Actions12, MaxActions12) \cup {Example12},
          form \in InputForms12 :
          /\ form.tr # <<>> => Len(as) <= MaxBeforeTrailer12
          /\ actions12 = as
          /\ input12 = ActionLines(as, form.eol) \o form.tr
    /\ idx12 = 0
    /\ pos = <<0, 0>>
    /\ direction = "E"
    /\ result12 = 0
    /\ pc12 = "for"

IdleDay12 ==
    /\ actions12 = <<>>
    /\ input12 = <<>>
    /\ idx12 = 0
    /\ pos = <<0, 0>>
    /\ direction = "E"
    /\ result12 = 0
    /\ pc12 = "idle"

\* Whether Action(Direction[line[0]], int(line[1:])) can be built from the line.
IsActionLine(line) ==
    /\ line # <<>>
    /\ Head(line) \in Direction
    /\ IsIntText(Tail(line))

\* action = Action(Direction[line[0]], int(line[1:])); s.move(action)
D12Move ==
    /\ pc12 = "for"
    /\ idx12 < Len(input12)
    /\ IsActionLine(input12[idx12 + 1])
    /\ LET line == input12[idx12 + 1]
           s == ShipMove(pos, direction, Head(line), ParseInt(Tail(line)))
       IN  /\ pos' = s[1]
           /\ direction' = s[2]
    /\ idx12' = idx12 + 1
    /\ UNCHANGED <<actions12, input12, result12, pc12>>
    /\ UNCHANGED others12

\* Direction[line[0]] raises KeyError (IndexError on ''), int() ValueError
D12ParseError ==
    /\ pc12 = "for"
    /\ idx12 < Len(input12)
    /\ ~IsActionLine(input12[idx12 + 1])
    /\ pc12' = "raised"
    /\ UNCHANGED <<actions12, input12, idx12, pos, direction, result12>>
    /\ UNCHANGED others12

\* return abs(s.pos[0]) + abs(s.pos[1])
D12Return ==
    /\ pc12 = "for"
    /\ idx12 = Len(input12)
    /\ result12' = Abs(pos[1]) + Abs(pos[2])
    /\ pc12' = "done"
    /\ UNCHANGED <<actions12, input12, idx12, pos, direction>>
    /\ UNCHANGED others12

NextDay12 == D12Move \/ D12ParseError \/ D12Return

(***************************************************************************)
(* The reference ship of the puzzle text: x grows to the east, y to the    *)
(* north, the heading is a number of quarter turns clockwise from north.   *)
(***************************************************************************)
RefHeadingOf == [d \in {"N", "E", "S", "W"} |->
    CASE d = "N" -> 0 [] d = "E" -> 1 [] d = "S" -> 2 [] d = "W" -> 3]

\* The unit step <<east, north>> of a heading.
RefUnit(h) ==
    CASE h = 0 -> <<0, 1>> [] h = 1 -> <<1, 0>> [] h = 2 -> <<0, -1>> [] h = 3 -> <<-1, 0>>

RefStep(s, a) ==
    IF a.d \in {"N", "S", "E", "W"}
    THEN [s EXCEPT !.x = @ + a.n * RefUnit(RefHeadingOf[a.d])[1],
                   !.y = @ + a.n * RefUnit(RefHeadingOf[a.d])[2]]
    ELSE IF a.d = "F"
    THEN [s EXCEPT !.x = @ + a.n * RefUnit(s.h)[1],
                   !.y = @ + a.n * RefUnit(s.h)[2]]
    ELSE IF a.d = "R"
    THEN [s EXCEPT !.h = (@ + (a.n \div 90)) % 4]
    ELSE [s EXCEPT !.h = (@ - (a.n \div 90)) % 4]

RECURSIVE RefShip(_)
RefShip(as) ==
    IF as = <<>> THEN [x |-> 0, y |-> 0, h |-> 1]
    ELSE RefStep(RefShip(SubSeq(as, 1, Len(as) - 1)), as[Len(as)])

RefDistance(as) == Abs(RefShip(as).x) + Abs(RefShip(as).y)

\* The input is exactly a list of actions (no malformed line follows).
OnlyActions12 == Len(input12) = Len(actions12)

\* No L or R of the list has a negative number of degrees.
TurnsNotNegative(as) ==
    \A k \in 1..Len(as) : as[k].d \in {"L", "R"} => as[k].n >= 0

\* C2 as stated: for every sequence of actions (N/S/E/W/F with a non-negative
\* distance, L/R with a multiple of 90 degrees) part1 returns the Manhattan
\* distance of the reference ship from the origin; F10, N3, F7, R90, F11
\* gives 25.
C2_ManhattanForEveryMultiple ==
    (pc12 = "done" /\ OnlyActions12) =>
        /\ result12 = RefDistance(actions12)
        /\ (actions12 = Example12 => result12 = 25)

\* C2, amended: for every sequence of actions (N/S/E/W/F with a non-negative
\* distance, L/R with a non-negative multiple of 90 degrees) part1 returns
\* the Manhattan distance of the reference ship from the origin; F10, N3, F7,
\* R90, F11 gives 25.
C2_ManhattanOfReferenceShip ==
    (pc12 = "done" /\ OnlyActions12 /\ TurnsNotNegative(actions12)) =>
        /\ result12 = RefDistance(actions12)
        /\ (actions12 = Example12 => result12 = 25)

\* The example has been run: F10, N3, F7, R90, F11.
C2_Witness ==
    /\ pc12 = "done"
    /\ OnlyActions12
    /\ actions12 = Example12
    /\ result12 = 25

(***************************************************************************)
(* 2020 day 15: memory game.                                               *)
(***************************************************************************)
MaxStartLen15 == 2
MaxStartValue15 == 1

\* itertools.islice(play(), 2019, None): the index of the value returned.
TargetIndex15 == 2019

Example15 == <<0, 3, 6>>

Starts15 ==
    (SeqsUpTo(0..MaxStartValue15, MaxStartLen15) \ {<<>>}) \cup {Example15}

\* str.split(sep) for a one-character separator
RECURSIVE Split(_, _)
Split(s, sep) ==
    IF \A k \in 1..Len(s) : s[k] # sep THEN <<s>>
    ELSE LET k == CHOOSE j \in 1..Len(s) :
                      s[j] = sep /\ \A m \in 1..(j - 1) : s[m] # sep
         IN  <<SubSeq(s, 1, k - 1)>> \o Split(SubSeq(s, k + 1, Len(s)), sep)

\* ",".join(str(n) for n in ns)
RECURSIVE JoinNumbers(_)
JoinNumbers(ns) ==
    IF Len(ns) = 1 THEN IntText(ns[1])
    ELSE IntText(ns[1]) \o <<",">> \o JoinNumbers(Tail(ns))

Range(f) == {f[k] : k \in DOMAIN f}

\* dict assignment d[k] = v
DictSet(d, k, v) == [x \in DOMAIN d \cup {k} |-> IF x = k THEN v ELSE d[x]]

\* The referee's next number: the next starting number, then 0 if the previous
\* number had not been called before, else the gap to its previous call.
GameNext(h, s) ==
    LET n == Len(h)
    IN  IF n < Len(s) THEN s[n + 1]
        ELSE IF \A j \in 1..(n - 1) : h[j] # h[n] THEN 0
        ELSE CHOOSE g \in 1..(n - 1) :
                 h[n - g] = h[n] /\ \A g2 \in 1..(g - 1) : h[n - g2] # h[n]

InitDay15 ==
    /\ \/ \E ns \in Starts15, eol \in BOOLEAN :
             /\ numbers15 = ns
             /\ input15 = << JoinNumbers(ns) \o (IF eol THEN <<"\n">> ELSE <<>>) >>
       \/ \* a line that is no list of numbers
          /\ numbers15 = <<>>
          /\ input15 \in { << <<"\n">> >>, << <<"0", ",", ",", "1">> >> }
    /\ start15 = <<>>
    /\ numbers_turns = <<>>
    /\ last15 = 0
    /\ i15 = 0
    /\ count15 = 0
    /\ value15 = 0
    /\ result15 = 0
    /\ pc15 = "begin"
    /\ game15 = <<>>

IdleDay15 ==
    /\ numbers15 = <<>>
    /\ input15 = <<>>
    /\ start15 = <<>>
    /\ numbers_turns = <<>>
    /\ last15 = 0
    /\ i15 = 0
    /\ count15 = 0
    /\ value15 = 0
    /\ result15 = 0
    /\ pc15 = "idle"
    /\ game15 = <<>>

\* start = list(map(int, input[0].split(','))); numbers_turns[n] = [] for each;
\* last = start[-1]
D15Begin ==
    /\ pc15 = "begin"
    /\ LET fields == Split(input15[1], ",")
       IN  /\ \A k \in 1..Len(fields) : IsIntText(fields[k])
           /\ start15' = [k \in 1..Len(fields) |-> ParseInt(fields[k])]
    /\ numbers_turns' = [n \in Range(start15') |-> <<>>]
    /\ last15' = start15'[Len(start15')]
    /\ pc15' = "play"
    /\ UNCHANGED <<numbers15, input15, i15, count15, value15, result15, game15>>
    /\ UNCHANGED others15

\* int() raises ValueError on a field that is no number
D15ParseError ==
    /\ pc15 = "begin"
    /\ \E k \in 1..Len(Split(input15[1], ",")) :
          ~IsIntText(Split(input15[1], ",")[k])
    /\ pc15' = "raised"
    /\ UNCHANGED <<numbers15, input15, start15, numbers_turns, last15, i15,
                   count15, value15, result15, game15>>
    /\ UNCHANGED others15

\* produce(value): numbers_turns[value] = [i] or [turns[-1], i]; last = value
Produce(nt, value, i) ==
    IF value \notin DOMAIN nt
    THEN DictSet(nt, value, <<i>>)
    ELSE DictSet(nt, value, <<nt[value][Len(nt[value])], i>>)

\* One next() on play() that stops at the yield of the first loop:
\* (resumed after a yield: i += 1;) n = start[i]; numbers_turns[n] = [i];
\* yield n.  The generator is suspended before its `i += 1`.
D15YieldStart ==
    /\ count15 <= TargetIndex15
    /\ \/ pc15 = "play"
       \/ pc15 = "first" /\ i15 + 1 < Len(start15)
    /\ i15' = IF pc15 = "first" THEN i15 + 1 ELSE i15
    /\ LET n == start15[i15' + 1]
       IN  /\ numbers_turns' = DictSet(numbers_turns, n, <<i15'>>)
           /\ value15' = n
    /\ count15' = count15 + 1
    /\ pc15' = "first"
    /\ game15' = Append(game15, GameNext(game15, numbers15))
    /\ UNCHANGED <<numbers15, input15, start15, last15, result15>>
    /\ UNCHANGED others15

\* One next() on play() that stops at a yield of the while loop: resumed after
\* a yield: i += 1; (the first loop is over;) turns = numbers_turns[last];
\* yield produce(0) if len(turns) == 1 else produce(t2 - t1).
D15YieldNext ==
    /\ count15 <= TargetIndex15
    /\ \/ pc15 = "first" /\ i15 + 1 = Len(start15)
       \/ pc15 = "while"
    /\ i15' = i15 + 1
    /\ LET turns == numbers_turns[last15]
           value == IF Len(turns) = 1 THEN 0 ELSE turns[2] - turns[1]
       IN  /\ numbers_turns' = Produce(numbers_turns, value, i15')
           /\ last15' = value
           /\ value15' = value
    /\ count15' = count15 + 1
    /\ pc15' = "while"
    /\ game15' = Append(game15, GameNext(game15, numbers15))
    /\ UNCHANGED <<numbers15, input15, start15, result15>>
    /\ UNCHANGED others15

\* return next(itertools.islice(play(), 2019, None)): the generator is not
\* resumed after the value has been taken.
D15Return ==
    /\ pc15 \in {"first", "while"}
    /\ count15 = TargetIndex15 + 1
    /\ result15' = value15
    /\ pc15' = "done"
    /\ UNCHANGED <<numbers15, input15, start15, numbers_turns, last15, i15,
                   count15, value15, game15>>
    /\ UNCHANGED others15

NextDay15 ==
    D15Begin \/ D15ParseError \/ D15YieldStart \/ D15YieldNext \/ D15Return

\* C1: for every starting sequence, repeated numbers included, part1 returns
\* the 2020th number of the game that starts with the sequence and goes on
\* with 0 after a number called for the first time and otherwise with the gap
\* between the two latest turns of the previous number; for 0,3,6 the 10th
\* number is 0 and the 2020th is 436.
C1_Returns2020thOfGame ==
    /\ pc15 = "done" => result15 = game15[2020]
    /\ (numbers15 = Example15 /\ count15 = 10) => value15 = 0
    /\ (numbers15 = Example15 /\ pc15 = "done") => result15 = 436

(***************************************************************************)
(* The harness (Python/advent.py): text of files.                          *)
(***************************************************************************)
\* "Result: "
ResultPrefix == <<"R", "e", "s", "u", "l", "t", ":", " ">>

\* "Input:"
InputHeader == <<"I", "n", "p", "u", "t", ":">>

\* Files are opened in text mode, with universal newlines: "\n", "\r\n" and a
\* lone "\r" each end a line, and each is read as "\n".
\* What is left of the file after one readline().
RECURSIVE AfterNewline(_)
AfterNewline(s) ==
    IF s = <<>> THEN <<>>
    ELSE IF Head(s) = "\n" THEN Tail(s)
    ELSE IF Head(s) = "\r"
         THEN IF Len(s) > 1 /\ s[2] = "\n" THEN Tail(Tail(s)) ELSE Tail(s)
    ELSE AfterNewline(Tail(s))

\* f.readline(): up to the first line end, which is read as "\n", or all that
\* is left.
RECURSIVE ReadLine(_)
ReadLine(s) ==
    IF s = <<>> THEN <<>>
    ELSE IF Head(s) \in {"\n", "\r"} THEN <<"\n">>
    ELSE <<Head(s)>> \o ReadLine(Tail(s))

\* f.readlines(): the lines, each with its "\n" but possibly the last.
RECURSIVE ReadLines(_)
ReadLines(s) ==
    IF s = <<>> THEN <<>>
    ELSE <<ReadLine(s)>> \o ReadLines(AfterNewline(s))

\* str.replace(old, ""): every occurrence of old removed, left to right.
RECURSIVE RemoveAll(_, _)
RemoveAll(s, old) ==
    IF s = <<>> THEN <<>>
    ELSE IF StartsWith(s, old) THEN RemoveAll(SubSeq(s, Len(old) + 1, Len(s)), old)
    ELSE <<Head(s)>> \o RemoveAll(Tail(s), old)

\* "\n".join(lines), as read_test_file builds `content`:
\* if content != "": content += "\n"; content += line
RECURSIVE TypedContent(_)
TypedContent(lines) ==
    IF lines = <<>> THEN <<>>
    ELSE LET before == TypedContent(SubSeq(lines, 1, Len(lines) - 1))
         IN  (IF before # <<>> THEN before \o <<"\n">> ELSE before)
                 \o lines[Len(lines)]

(***************************************************************************)
(* Options and PuzzleData.                                                 *)
(***************************************************************************)
\* args.test / Options.useTestFile: None, or the integer given with -t.
NoTest == [given |-> FALSE, n |-> 0]
Test(n) == [given |-> TRUE, n |-> n]

\* Python's truth value of useTestFile: None and 0 are false.
Truthy(t) == t.given /\ t.n # 0

\* PuzzleData.get_data
GetData(content, is_test_file) ==
    LET lines == ReadLines(content)
    IN  IF ~Truthy(is_test_file) THEN lines ELSE SubSeq(lines, 3, Len(lines))

\* PuzzleData.get_expected_result: None, the text, or the exception.
GetExpectedResult(content, is_test_file) ==
    IF ~Truthy(is_test_file) THEN [kind |-> "none", text |-> <<>>]
    ELSE LET first_line == Strip(ReadLine(content))
         IN  IF ~StartsWith(first_line, ResultPrefix)
             THEN [kind |-> "raise", text |-> <<>>]
             ELSE [kind |-> "text", text |-> RemoveAll(first_line, ResultPrefix)]

(***************************************************************************)
(* Paths and modules.                                                      *)
(***************************************************************************)
\* sys.path[0]: the directory of advent.py.
ScriptDir == <<"/", "a", "p", "p">>

\* Another directory the program may be started in.
OtherDir == <<"/", "w", "o", "r", "k">>

\* The file a path names for a process whose working directory is cwd.
Resolve(cwd, path) ==
    IF path # <<>> /\ Head(path) = "/" THEN path ELSE cwd \o <<"/">> \o path

\* ".data", the parent of the cache directories
DataDir == <<".", "d", "a", "t", "a">>

\* f"{sys.path[0]}/.data"
CookieDir == ScriptDir \o <<"/", ".", "d", "a", "t", "a">>

\* f"{cookie_file_dir}/cookie.txt"
CookiePath == CookieDir \o <<"/", "c", "o", "o", "k", "i", "e", ".", "t", "x", "t">>

\* f".data/day{day}"
CacheDir(day) == <<".", "d", "a", "t", "a", "/", "d", "a", "y">> \o IntText(day)

\* "input.txt" if not test_file else f"test{useTestFile}.txt"
FileName(test_file) ==
    IF ~Truthy(test_file) THEN <<"i", "n", "p", "u", "t", ".", "t", "x", "t">>
    ELSE <<"t", "e", "s", "t">> \o IntText(test_file.n) \o <<".", "t", "x", "t">>

\* f"{input_cache_dir}/{file_name}"
CacheName(day, test_file) == CacheDir(day) \o <<"/">> \o FileName(test_file)

\* os.path.exists(input_cache_name), for the file the name resolves to
CacheExists(fs, name) == name \in DOMAIN fs

\* "runners."
RunnersPrefix == <<"r", "u", "n", "n", "e", "r", "s", ".">>

\* The name of the module of a day in package runners: "day<N>"
DayName(day) == <<"d", "a", "y">> \o IntText(day)

\* f'runners.day{day}'
ModuleName(day) == RunnersPrefix \o DayName(day)

\* The digits a text starts with.
RECURSIVE LeadingDigits(_)
LeadingDigits(s) ==
    IF s # <<>> /\ IsDigit(Head(s)) THEN <<Head(s)>> \o LeadingDigits(Tail(s))
    ELSE <<>>

\* re.match(r"runners.day(\d+)", module) succeeds
MatchesModule(module) ==
    /\ Len(module) >= 12
    /\ SubSeq(module, 1, 7) = <<"r", "u", "n", "n", "e", "r", "s">>
    /\ module[8] # "\n"
    /\ SubSeq(module, 9, 11) = <<"d", "a", "y">>
    /\ IsDigit(module[12])

\* int(m.group(1))
ModuleDay(module) == DigitsValue(LeadingDigits(SubSeq(module, 12, Len(module))))

\* The day modules of package runners and the parts each defines: day1.py
\* (2019: part1, part2), day12.py and day15.py (2020: part1 each), put in one
\* runners package beside advent.py.
DefinedParts == (1 :> {1, 2}) @@ (12 :> {1}) @@ (15 :> {1})

\* runners.__all__
RunnersAll == <<DayName(1), DayName(12)>>

\* importlib.import_module(module) succeeds
ModuleExists(module) == \E d \in DOMAIN DefinedParts : module = ModuleName(d)

(***************************************************************************)
(* The harness: what the program is run with.                              *)
(***************************************************************************)
MaxRuns == 2

\* -p: None, or the part given.
NoPart == [given |-> FALSE, n |-> 0]
OnlyPart(n) == [given |-> TRUE, n |-> n]

\* The command lines: --list, --run <day>, --run-all, with -p and -t, and the
\* directory the program is started in.
TestArgs == {NoTest, Test(-1), Test(0), Test(1)}
PartArgs == {NoPart, OnlyPart(1), OnlyPart(2)}
Args ==
    [mode : {"day"}, day : {1}, part : PartArgs, test : {NoTest, Test(1)},
     cwd : {ScriptDir}]
        \cup [mode : {"day"}, day : {1}, part : {NoPart}, test : TestArgs,
              cwd : {ScriptDir}]
        \cup [mode : {"day"}, day : {1}, part : {NoPart}, test : {NoTest},
              cwd : {OtherDir}]
        \cup [mode : {"day"}, day : {3, -1, 15}, part : {NoPart}, test : {NoTest},
              cwd : {ScriptDir}]
        \cup [mode : {"all"}, day : {0}, part : {NoPart}, test : {NoTest, Test(1)},
              cwd : {ScriptDir}]
        \cup [mode : {"list"}, day : {0}, part : {NoPart}, test : {NoTest},
              cwd : {ScriptDir}]

\* What the user types at the prompts of read_test_file: the input lines (each
\* non-empty; an empty line or the end of input may follow any of them), then
\* the expected result, or the end of input in its place.
TypedInputs == {<<>>, <<<<"b">>>>, <<<<"b">>, <<"a">>>>}
TypedResults ==
    {[eof |-> TRUE, text |-> <<>>]}
        \cup [eof : {FALSE}, text : {<<"4", "2">>, <<>>, <<"R", "e", "s", "u", "l", "t", ":", " ", "5">>}]

\* What requests.get(...).text gives, or the exception it raises.
NetReplies ==
    {[ok |-> FALSE, text |-> <<>>], [ok |-> TRUE, text |-> <<"1", "2", "\n", "1", "4", "\n">>]}

\* What a solution function does: return a number, or raise.
Outcomes == {[raises |-> TRUE, value |-> 0], [raises |-> FALSE, value |-> 42]}

\* The disks the program may be started on.
Disk(fs, ds) == [files |-> fs, dirs |-> ds]
InScriptDir(path) == Resolve(ScriptDir, path)
Day1Dirs == {InScriptDir(DataDir), InScriptDir(CacheDir(1))}
Cookie == CookiePath :> <<"a", "b", "c", "\n">>
Disks == {
    Disk(<<>>, {}),
    Disk(Cookie, {CookieDir}),
    Disk(Cookie, {CookieDir, Resolve(OtherDir, DataDir)}),
    Disk(Cookie @@ (InScriptDir(CacheName(1, NoTest)) :> <<"1", "2", "\r", "\n", "1", "4", "\n">>), Day1Dirs),
    Disk(InScriptDir(CacheName(1, Test(1))) :> <<"R", "e", "s", "u", "l", "t", ":", " ", "7", "\n", "I", "n", "p", "u", "t", ":", "\n", "a", "\n", "b">>, Day1Dirs),
    Disk(InScriptDir(CacheName(1, Test(1))) :> <<"a", "\n", "b", "\n">>, Day1Dirs),
    Disk(InScriptDir(CacheName(1, Test(1))) :> <<" ", "R", "e", "s", "u", "l", "t", ":", " ", "4", "2", "\n", "I", "n", "p", "u", "t", ":", "\n", "a", "\n">>, Day1Dirs),
    Disk(InScriptDir(CacheName(1, Test(1))) :> <<"R", "e", "s", "u", "l", "t", ":", " ", "4", "2", "\n", "a", "\n", "b", "\n">>, Day1Dirs),
    Disk(InScriptDir(CacheName(1, Test(1))) :> <<"R", "e", "s", "u", "l", "t", ":", " ", "\n", "I", "n", "p", "u", "t", ":", "\n", "a", "\n", "b">>, Day1Dirs),
    Disk(Cookie @@ (InScriptDir(<<".", "d", "a", "t", "a", "/", "d", "a", "y", "1", "/", "t", "e", "s", "t", "0", ".", "t", "x", "t">>) :> <<"R", "e", "s", "u", "l", "t", ":", " ", "7", "\n", "I", "n", "p", "u", "t", ":", "\n", "a", "\n", "b">>), Day1Dirs) }

NoRaise == [kind |-> "none", day |-> 0, part |-> 0]
NoCall == [name |-> <<>>, hit |-> FALSE, prompted |-> FALSE,
           cookieRead |-> FALSE, netRequest |-> FALSE, before |-> <<>>]
NoPuzzle == [filename |-> <<>>, is_test_file |-> NoTest]
NoExpected == [kind |-> "none", text |-> <<>>]
NoOpened == [data |-> <<>>, expected |-> <<>>]

InitHarness ==
    /\ \E d \in Disks : files = d.files /\ dirs = d.dirs
    /\ run = 0
    /\ args = [mode |-> "list", day |-> 0, part |-> NoPart, test |-> NoTest,
               cwd |-> ScriptDir]
    /\ pc = "idle"
    /\ queue = <<>>
    /\ curModule = <<>>
    /\ curDay = 0
    /\ puzzle = NoPuzzle
    /\ inputLines = <<>>
    /\ expected = NoExpected
    /\ opened = NoOpened
    /\ typed = <<>>
    /\ call = NoCall
    /\ loaded = <<>>
    /\ executed = <<>>
    /\ printed = <<>>
    /\ raised = NoRaise
    /\ entered = <<>>

IdleHarness ==
    /\ files = <<>> /\ dirs = {}
    /\ run = 0
    /\ args = [mode |-> "list", day |-> 0, part |-> NoPart, test |-> NoTest,
               cwd |-> ScriptDir]
    /\ pc = "off"
    /\ queue = <<>>
    /\ curModule = <<>>
    /\ curDay = 0
    /\ puzzle = NoPuzzle
    /\ inputLines = <<>>
    /\ expected = NoExpected
    /\ opened = NoOpened
    /\ typed = <<>>
    /\ call = NoCall
    /\ loaded = <<>>
    /\ executed = <<>>
    /\ printed = <<>>
    /\ raised = NoRaise
    /\ entered = <<>>

(***************************************************************************)
(* main() and PuzzleRunner.                                                *)
(***************************************************************************)
\* What is printed: a line text (--list, the prompts), or the day, part, result
\* and comparison mark of a result line (its elapsed time is left out).
Line(text, mark) == [day |-> 0, part |-> 0, text |-> text, mark |-> mark]

\* print("Available day:", m)
AvailableLine(m) == Line(<<"A", "v", "a", "i", "l", "a", "b", "l", "e", " ", "d", "a", "y", ":", " ">> \o m, "available")

\* print("Please enter the input for test %d; end with an empty line" % n)
PleaseEnterLine(n) ==
    Line(<<"P", "l", "e", "a", "s", "e", " ", "e", "n", "t", "e", "r", " ", "t", "h", "e", " ", "i", "n", "p", "u", "t", " ", "f", "o", "r", " ", "t", "e", "s", "t", " ">> \o IntText(n) \o <<";", " ", "e", "n", "d", " ", "w", "i", "t", "h", " ", "a", "n", " ", "e", "m", "p", "t", "y", " ", "l", "i", "n", "e">>, "prompt")

\* the prompt of input("Expected result: ")
ExpectedResultPrompt == Line(<<"E", "x", "p", "e", "c", "t", "e", "d", " ", "r", "e", "s", "u", "l", "t", ":", " ">>, "prompt")

\* The file a path names for the current process.
PathOf(path) == Resolve(args.cwd, path)

\* main(): a new process on the disk the earlier ones left.  --list prints the
\* modules; --run and --run-all enter run_puzzle_module for the first module.
Main ==
    /\ pc \in {"idle", "exit", "failed"}
    /\ run < MaxRuns
    /\ run' = run + 1
    /\ \E a \in Args :
          /\ args' = a
          /\ IF a.mode = "list"
             THEN /\ printed' = [k \in 1..Len(RunnersAll) |->
                                    AvailableLine(RunnersAll[k])]
                  /\ curModule' = <<>>
                  /\ queue' = <<>>
                  /\ pc' = "exit"
             ELSE /\ printed' = <<>>
                  /\ curModule' = IF a.mode = "day" THEN ModuleName(a.day)
                                  ELSE RunnersPrefix \o Head(RunnersAll)
                  /\ queue' = IF a.mode = "day" THEN <<>> ELSE Tail(RunnersAll)
                  /\ pc' = "module"
    /\ curDay' = 0
    /\ puzzle' = NoPuzzle
    /\ inputLines' = <<>>
    /\ expected' = NoExpected
    /\ opened' = NoOpened
    /\ typed' = <<>>
    /\ call' = NoCall
    /\ loaded' = <<>>
    /\ executed' = <<>>
    /\ raised' = NoRaise
    /\ UNCHANGED <<files, dirs, entered>>
    /\ UNCHANGED othersH

\* run_puzzle_module: raise Exception(f"Invalid module name: {module}")
InvalidModule ==
    /\ pc = "module"
    /\ ~MatchesModule(curModule)
    /\ raised' = [kind |-> "module", day |-> 0, part |-> 0]
    /\ pc' = "failed"
    /\ UNCHANGED <<files, dirs, run, args, queue, curModule, curDay, puzzle,
                   inputLines, expected, typed, call, loaded, executed, printed,
                   entered>>
    /\ UNCHANGED opened
    /\ UNCHANGED othersH

\* get_puzzle_data, the cached copy exists: return PuzzleData(name, test_file)
LoadCached ==
    /\ pc = "module"
    /\ MatchesModule(curModule)
    /\ LET day == ModuleDay(curModule)
           name == CacheName(day, args.test)
       IN  /\ CacheExists(files, PathOf(name))
           /\ curDay' = day
           /\ loaded' = Append(loaded, day)
           /\ call' = [NoCall EXCEPT !.name = name, !.hit = TRUE,
                                     !.before = files]
           /\ puzzle' = [filename |-> name, is_test_file |-> args.test]
    /\ pc' = "parse"
    /\ UNCHANGED <<files, dirs, run, args, queue, curModule, inputLines, expected,
                   typed, executed, printed, raised, entered>>
    /\ UNCHANGED opened
    /\ UNCHANGED othersH

\* save_input: mkdir the cache directory if it is missing (which raises when
\* its parent is missing too), then write the file.
SaveInput(fs, ds, cwd, dir, name, content) ==
    IF Resolve(cwd, dir) \notin ds /\ Resolve(cwd, DataDir) \notin ds
    THEN [ok |-> FALSE, files |-> fs, dirs |-> ds]
    ELSE [ok |-> TRUE,
          files |-> [p \in DOMAIN fs \cup {Resolve(cwd, name)} |->
                        IF p = Resolve(cwd, name) THEN content ELSE fs[p]],
          dirs |-> ds \cup {Resolve(cwd, dir)}]

\* read_test_file's return value
FixtureText(result, lines) ==
    ResultPrefix \o result \o <<"\n">> \o InputHeader \o <<"\n">>
        \o TypedContent(lines)

\* get_puzzle_data, no cached copy, a test selector: read_test_file prints its
\* request and waits at the first input().
BeginPrompt ==
    /\ pc = "module"
    /\ MatchesModule(curModule)
    /\ LET day == ModuleDay(curModule)
           name == CacheName(day, args.test)
       IN  /\ ~CacheExists(files, PathOf(name))
           /\ Truthy(args.test)
           /\ curDay' = day
           /\ loaded' = Append(loaded, day)
           /\ call' = [NoCall EXCEPT !.name = name, !.prompted = TRUE,
                                     !.before = files]
    /\ printed' = Append(printed, PleaseEnterLine(args.test.n))
    /\ typed' = <<>>
    /\ pc' = "typing"
    /\ UNCHANGED <<files, dirs, run, args, queue, curModule, puzzle, inputLines,
                   expected, executed, raised, entered>>
    /\ UNCHANGED opened
    /\ UNCHANGED othersH

\* read_test_file, one turn of the while loop: a line that is not empty is
\* read and added to content; the loop waits at the next input().
TypeLine ==
    /\ pc = "typing"
    /\ \E lines \in TypedInputs :
          /\ Len(lines) = Len(typed) + 1
          /\ SubSeq(lines, 1, Len(typed)) = typed
          /\ typed' = lines
    /\ UNCHANGED <<files, dirs, run, args, pc, queue, curModule, curDay, puzzle,
                   inputLines, expected, call, loaded, executed, printed, raised,
                   entered>>
    /\ UNCHANGED opened
    /\ UNCHANGED othersH

\* read_test_file: an empty line or the end of the input ends the loop; then
\* input("Expected result: ") prompts and waits.
EndOfLines ==
    /\ pc = "typing"
    /\ printed' = Append(printed, ExpectedResultPrompt)
    /\ pc' = "expecting"
    /\ UNCHANGED <<files, dirs, run, args, queue, curModule, curDay, puzzle,
                   inputLines, expected, typed, call, loaded, executed, raised,
                   entered>>
    /\ UNCHANGED opened
    /\ UNCHANGED othersH

\* read_test_file: the expected result is read (EOFError when the input has
\* ended); then save_input, and get_puzzle_data returns the PuzzleData.
TypeExpected ==
    /\ pc = "expecting"
    /\ \E answer \in TypedResults :
          LET saved == SaveInput(files, dirs, args.cwd, CacheDir(curDay),
                                 call.name, FixtureText(answer.text, typed))
          IN  IF answer.eof \/ ~saved.ok
              THEN /\ raised' = [kind |-> "loader", day |-> curDay, part |-> 0]
                   /\ pc' = "failed"
                   /\ UNCHANGED <<files, dirs, puzzle, entered>>
              ELSE /\ files' = saved.files
                   /\ dirs' = saved.dirs
                   /\ puzzle' = [filename |-> call.name,
                                 is_test_file |-> args.test]
                   /\ entered' = [p \in DOMAIN entered \cup {PathOf(call.name)} |->
                         IF p = PathOf(call.name)
                         THEN [lines |-> typed, expected |-> answer.text,
                               run |-> run]
                         ELSE entered[p]]
                   /\ pc' = "parse"
                   /\ UNCHANGED raised
    /\ UNCHANGED <<run, args, queue, curModule, curDay, inputLines, expected,
                   typed, call, loaded, executed, printed>>
    /\ UNCHANGED opened
    /\ UNCHANGED othersH

\* get_puzzle_data, no cached copy, no test selector: load_cookie (mkdir the
\* cookie directory, read cookie.txt), then requests.get is called and waits.
BeginDownload ==
    /\ pc = "module"
    /\ MatchesModule(curModule)
    /\ LET day == ModuleDay(curModule)
           name == CacheName(day, args.test)
       IN  /\ ~CacheExists(files, PathOf(name))
           /\ ~Truthy(args.test)
           /\ curDay' = day
           /\ loaded' = Append(loaded, day)
           /\ dirs' = dirs \cup {CookieDir}
           /\ IF CookiePath \notin DOMAIN files
              THEN /\ call' = [NoCall EXCEPT !.name = name, !.cookieRead = TRUE,
                                             !.before = files]
                   /\ raised' = [kind |-> "loader", day |-> day, part |-> 0]
                   /\ pc' = "failed"
              ELSE /\ call' = [NoCall EXCEPT !.name = name, !.cookieRead = TRUE,
                                             !.netRequest = TRUE,
                                             !.before = files]
                   /\ pc' = "requesting"
                   /\ UNCHANGED raised
    /\ UNCHANGED <<files, run, args, queue, curModule, puzzle, inputLines,
                   expected, typed, executed, printed, entered>>
    /\ UNCHANGED opened
    /\ UNCHANGED othersH

\* requests.get returns or raises; then save_input, and get_puzzle_data
\* returns the PuzzleData.
FinishDownload ==
    /\ pc = "requesting"
    /\ \E reply \in NetReplies :
          LET saved == SaveInput(files, dirs, args.cwd, CacheDir(curDay),
                                 call.name, reply.text)
          IN  IF ~reply.ok \/ ~saved.ok
              THEN /\ raised' = [kind |-> "loader", day |-> curDay, part |-> 0]
                   /\ pc' = "failed"
                   /\ UNCHANGED <<files, dirs, puzzle>>
              ELSE /\ files' = saved.files
                   /\ dirs' = saved.dirs
                   /\ puzzle' = [filename |-> call.name,
                                 is_test_file |-> args.test]
                   /\ pc' = "parse"
                   /\ UNCHANGED raised
    /\ UNCHANGED <<run, args, queue, curModule, curDay, inputLines, expected,
                   typed, call, loaded, executed, printed, entered>>
    /\ UNCHANGED opened
    /\ UNCHANGED othersH

\* input = puzzle_data.get_data(): the file is opened and read
ReadData ==
    /\ pc = "parse"
    /\ LET content == files[PathOf(puzzle.filename)]
       IN  /\ inputLines' = GetData(content, puzzle.is_test_file)
           /\ opened' = [data |-> content, expected |-> <<>>]
    /\ pc' = "expect"
    /\ UNCHANGED <<files, dirs, run, args, queue, curModule, curDay, puzzle,
                   expected, typed, call, loaded, executed, printed, raised,
                   entered>>
    /\ UNCHANGED othersH

\* expected_result = puzzle_data.get_expected_result(): for a test fixture the
\* file is opened again and its first line read
ReadExpected ==
    /\ pc = "expect"
    /\ LET content == files[PathOf(puzzle.filename)]
           e == GetExpectedResult(content, puzzle.is_test_file)
       IN  /\ opened' = [opened EXCEPT !.expected =
                            IF Truthy(puzzle.is_test_file) THEN content ELSE <<>>]
           /\ IF e.kind = "raise"
              THEN /\ raised' = [kind |-> "fixture", day |-> curDay, part |-> 0]
                   /\ pc' = "failed"
                   /\ UNCHANGED expected
              ELSE /\ expected' = e
                   /\ pc' = "import"
                   /\ UNCHANGED raised
    /\ UNCHANGED <<files, dirs, run, args, queue, curModule, curDay, puzzle,
                   inputLines, typed, call, loaded, executed, printed, entered>>
    /\ UNCHANGED othersH

\* day_module = importlib.import_module(module)
ImportModule ==
    /\ pc = "import"
    /\ IF ModuleExists(curModule)
       THEN pc' = "part1" /\ UNCHANGED raised
       ELSE /\ raised' = [kind |-> "import", day |-> curDay, part |-> 0]
            /\ pc' = "failed"
    /\ UNCHANGED <<files, dirs, run, args, queue, curModule, curDay, puzzle,
                   inputLines, expected, typed, call, loaded, executed, printed,
                   entered>>
    /\ UNCHANGED opened
    /\ UNCHANGED othersH

PartPc(p) == IF p = 1 THEN "part1" ELSE "part2"
AfterPart(p) == IF p = 1 THEN "part2" ELSE "moduleDone"

\* A mutation of the part test: -p is ignored.
PartWantedAlways(part, p) == TRUE

\* part is None or part == p
PartWanted(part, p) == ~part.given \/ part.n = p

\* run(): comparison_result
Mark(expected_result, text) ==
    IF expected_result.kind = "none" THEN ""
    ELSE IF expected_result.text = text THEN "match"
    ELSE "mismatch"

\* A mutation of run(): an exception of the solution is swallowed and the
\* runner goes on.
RunPartSwallowing(p) ==
    /\ pc = PartPc(p)
    /\ PartWanted(args.part, p)
    /\ p \in DefinedParts[curDay]
    /\ executed' = Append(executed, <<curDay, p>>)
    /\ \E out \in Outcomes :
          IF out.raises
          THEN /\ raised' = [kind |-> "solution", day |-> curDay, part |-> p]
               /\ pc' = AfterPart(p)
               /\ UNCHANGED printed
          ELSE /\ printed' = Append(printed,
                      [day |-> curDay, part |-> p, text |-> IntText(out.value),
                       mark |-> Mark(expected, IntText(out.value))])
               /\ pc' = AfterPart(p)
               /\ UNCHANGED raised
    /\ UNCHANGED <<files, dirs, run, args, queue, curModule, curDay, puzzle,
                   inputLines, expected, typed, call, loaded, entered>>
    /\ UNCHANGED opened
    /\ UNCHANGED othersH

\* if (part is None or part == p) and "part<p>" in day_module.__dict__:
\*     self.run(day, p, run_part<p>, expected_result)
RunPart(p) ==
    /\ pc = PartPc(p)
    /\ PartWanted(args.part, p)
    /\ p \in DefinedParts[curDay]
    /\ executed' = Append(executed, <<curDay, p>>)
    /\ \E out \in Outcomes :
          IF out.raises
          THEN /\ raised' = [kind |-> "solution", day |-> curDay, part |-> p]
               /\ pc' = "failed"
               /\ UNCHANGED printed
          ELSE /\ printed' = Append(printed,
                      [day |-> curDay, part |-> p, text |-> IntText(out.value),
                       mark |-> Mark(expected, IntText(out.value))])
               /\ pc' = AfterPart(p)
               /\ UNCHANGED raised
    /\ UNCHANGED <<files, dirs, run, args, queue, curModule, curDay, puzzle,
                   inputLines, expected, typed, call, loaded, entered>>
    /\ UNCHANGED opened
    /\ UNCHANGED othersH

\* the `if` of part p is false: the part is not run
SkipPart(p) ==
    /\ pc = PartPc(p)
    /\ ~(PartWanted(args.part, p) /\ p \in DefinedParts[curDay])
    /\ pc' = AfterPart(p)
    /\ UNCHANGED <<files, dirs, run, args, queue, curModule, curDay, puzzle,
                   inputLines, expected, typed, call, loaded, executed, printed,
                   raised, entered>>
    /\ UNCHANGED opened
    /\ UNCHANGED othersH

\* run_puzzle_module returns: main()'s loop takes the next name of
\* runners.__all__ and puts "runners." before it, or ends
NextModule ==
    /\ pc = "moduleDone"
    /\ IF queue = <<>>
       THEN pc' = "exit" /\ UNCHANGED <<queue, curModule>>
       ELSE /\ curModule' = RunnersPrefix \o Head(queue)
            /\ queue' = Tail(queue)
            /\ pc' = "module"
    /\ UNCHANGED <<files, dirs, run, args, curDay, puzzle, inputLines, expected,
                   typed, call, loaded, executed, printed, raised, entered>>
    /\ UNCHANGED opened
    /\ UNCHANGED othersH

NextHarness ==
    \/ Main
    \/ InvalidModule
    \/ LoadCached
    \/ BeginPrompt
    \/ TypeLine
    \/ EndOfLines
    \/ TypeExpected
    \/ BeginDownload
    \/ FinishDownload
    \/ ReadData
    \/ ReadExpected
    \/ ImportModule
    \/ RunPart(1)
    \/ RunPart(2)
    \/ SkipPart(1)
    \/ SkipPart(2)
    \/ NextModule

(***************************************************************************)
(* Specifications: one per program.                                        *)
(***************************************************************************)
NextDay1 == D1Break \/ D1ParseError \/ D1Line \/ D1While \/ D1Return

InitSpecDay1 == InitDay1 /\ IdleDay12 /\ IdleDay15 /\ IdleHarness

SpecDay1 == InitSpecDay1 /\ [][NextDay1]_vars

\* The interpreter runs the function to its end: a step that can be taken is.
FairSpecDay1 == SpecDay1 /\ WF_vars(NextDay1)

InitSpecDay12 == IdleDay1 /\ InitDay12 /\ IdleDay15 /\ IdleHarness

SpecDay12 == InitSpecDay12 /\ [][NextDay12]_vars

InitSpecDay15 == IdleDay1 /\ IdleDay12 /\ InitDay15 /\ IdleHarness

SpecDay15 == InitSpecDay15 /\ [][NextDay15]_vars

InitSpecHarness == IdleDay1 /\ IdleDay12 /\ IdleDay15 /\ InitHarness

SpecHarness == InitSpecHarness /\ [][NextHarness]_vars

\* The chain f(m), f(f(m)), ... summed up to, and without, the first term <= 0.
RECURSIVE FuelChain(_)
FuelChain(m) ==
    LET f == (m \div 3) - 2
    IN  IF f <= 0 THEN 0 ELSE f + FuelChain(f)

RECURSIVE TotalFuel(_)
TotalFuel(ms) == IF ms = <<>> THEN 0 ELSE FuelChain(Head(ms)) + TotalFuel(Tail(ms))

\* The input is exactly a list of masses (no empty or blank line follows).
OnlyMasses1 == Len(input1) = Len(masses1)

\* C3: for every list of module masses part2 terminates, and returns the sum
\* over the modules of the fuel chain f(m), f(f(m)), ... cut at, and without,
\* the first increment <= 0; 1969 gives 966 and 100756 gives 50346.
C3_Part2Total ==
    /\ OnlyMasses1 => <>(pc1 = "done")
    /\ [](OnlyMasses1 /\ pc1 = "done" =>
             /\ result1 = TotalFuel(masses1)
             /\ (masses1 = <<1969>> => result1 = 966)
             /\ (masses1 = <<100756>> => result1 = 50346))

C3_Witness ==
    /\ pc1 = "done"
    /\ OnlyMasses1
    /\ masses1 = <<100756, 1969>>
    /\ result1 = 50346 + 966

(***************************************************************************)
(* Properties of the harness.                                              *)
(***************************************************************************)
\* get_data and get_expected_result have just been called on `puzzle`.
JustParsed == pc = "import" \/ (pc = "failed" /\ raised.kind = "fixture")

\* The current run_puzzle_module invocation has ended: returned, or raised.
InvocationEnded == pc = "moduleDone" \/ pc = "failed"

\* get_data and get_expected_result have read a test fixture.
ReadsFixture == JustParsed /\ Truthy(puzzle.is_test_file)

\* A line without its "\n".
StripEol(line) ==
    IF line # <<>> /\ line[Len(line)] = "\n" THEN SubSeq(line, 1, Len(line) - 1)
    ELSE line

\* The text after "Result: " on the first line of a fixture.
ValueOnFirstLine(content) ==
    LET line == StripEol(ReadLine(content))
    IN  SubSeq(line, Len(ResultPrefix) + 1, Len(line))

\* The lines of a fixture after its first line "Result: <v>" and the "Input:"
\* line that the loader writes after it.
LinesAfterHeader(content) == Tail(Tail(ReadLines(content)))

\* A fixture as the loader writes it: "Result: <v>", "Input:", the input lines.
HasHeader(content) ==
    /\ StartsWith(ReadLine(content), ResultPrefix)
    /\ Len(ReadLines(content)) >= 2
    /\ StripEol(ReadLines(content)[2]) = InputHeader

\* C4: for every cached test-fixture file whose first line is "Result: <v>"
\* and whose remaining lines (after the "Input:" line of the loader's header)
\* are the puzzle input lines L, get_expected_result() returns v and
\* get_data() returns exactly L, in order.
C4_ResultLineGivesValue ==
    (/\ ReadsFixture
     /\ call.hit
     /\ HasHeader(opened.data)
     /\ HasHeader(opened.expected)) =>
        /\ pc = "import"
        /\ expected = [kind |-> "text", text |-> ValueOnFirstLine(opened.expected)]
        /\ inputLines = LinesAfterHeader(opened.data)

\* C5: a run against a cached test fixture whose first line does not start
\* with "Result: " fails, before any part of the day is invoked and before any
\* line of the day is printed.
C5_BadHeaderFails ==
    (/\ pc \in {"import", "part1", "part2", "moduleDone", "failed"}
     /\ raised.kind \notin {"loader", "module"}
     /\ call.hit
     /\ Truthy(puzzle.is_test_file)
     /\ ~StartsWith(ReadLine(opened.expected), ResultPrefix)) =>
        /\ pc = "failed"
        /\ raised.kind = "fixture"
        /\ \A k \in 1..Len(executed) : executed[k][1] # curDay
        /\ \A k \in 1..Len(printed) : printed[k].day # curDay

\* ".data/day<day>/test<N>.txt"
FixturePath(day, n) ==
    <<".", "d", "a", "t", "a", "/", "d", "a", "y">> \o IntText(day) \o <<"/", "t", "e", "s", "t">> \o IntText(n) \o <<".", "t", "x", "t">>

\* C6: with -t N, for every integer N, get_puzzle_data resolves to
\* .data/day<day>/test<N>.txt flagged as a test fixture, and neither reads the
\* cookie, nor downloads, nor touches input.txt.
C6_SelectorNamesFixture ==
    (args.test.given /\ loaded # <<>>) =>
        /\ call.name = FixturePath(curDay, args.test.n)
        /\ ~call.cookieRead
        /\ ~call.netRequest
        /\ (puzzle # NoPuzzle =>
               /\ puzzle.filename = FixturePath(curDay, args.test.n)
               /\ Truthy(puzzle.is_test_file))

\* The cache path of a day and a selector: test<N>.txt for selector N, input.txt
\* without a selector.
ExpectedCachePath(day, test) ==
    IF test.given THEN FixturePath(day, test.n)
    ELSE <<".", "d", "a", "t", "a", "/", "d", "a", "y">> \o IntText(day)
             \o <<"/", "i", "n", "p", "u", "t", ".", "t", "x", "t">>

\* C7: whenever the file at the expected cache path for (day, selector)
\* exists, get_puzzle_data(day) returns a PuzzleData for that file without
\* prompting, without reading the cookie, without a network request, without
\* printing and without creating or changing any file or directory; and no
\* step changes or removes a file that is present.
C7_CacheHitChangesNothing ==
    [][/\ (/\ pc = "module"
            /\ MatchesModule(curModule)
            /\ PathOf(ExpectedCachePath(ModuleDay(curModule), args.test))
                   \in DOMAIN files) =>
               /\ files' = files
               /\ dirs' = dirs
               /\ pc' = "parse"
               /\ puzzle'.filename
                      = ExpectedCachePath(ModuleDay(curModule), args.test)
               /\ call'.hit
               /\ ~call'.prompted
               /\ ~call'.cookieRead
               /\ ~call'.netRequest
               /\ printed' = printed
       /\ \A p \in DOMAIN files : p \in DOMAIN files' /\ files'[p] = files[p]]_vars

\* The parts of a day in a log, in order.
PartsOf(log, day) ==
    LET IsDay(e) == e[1] = day
        sel == SelectSeq(log, IsDay)
    IN  [k \in 1..Len(sel) |-> sel[k][2]]

PrintedParts(day) ==
    LET IsLine(e) == e.mark \in {"", "match", "mismatch"} /\ e.day = day
        sel == SelectSeq(printed, IsLine)
    IN  [k \in 1..Len(sel) |-> sel[k].part]

\* The day of the current invocation.
InvokedDay == IF MatchesModule(curModule) THEN ModuleDay(curModule) ELSE args.day

\* Part 1 then part 2, each if asked for and defined by the module.
PartsDue ==
    LET Due(p) == /\ ~args.part.given \/ args.part.n = p
                  /\ ModuleExists(curModule)
                  /\ p \in DefinedParts[ModuleDay(curModule)]
    IN  SelectSeq(<<1, 2>>, Due)

\* C8 as stated: in an invocation whose solution functions do not raise, each
\* part is executed exactly once iff asked for and defined, part 1 before
\* part 2, with exactly one line printed per executed part, whatever the marks.
C8_PartsRunWheneverNoSolutionRaises ==
    (InvocationEnded /\ raised.kind # "solution") =>
        /\ PartsOf(executed, InvokedDay) = PartsDue
        /\ PrintedParts(InvokedDay) = PartsDue

\* C8, amended: the same, in an invocation in which neither the loading of the
\* puzzle data (get_puzzle_data, get_data, get_expected_result) nor a solution
\* function raises.
C8_PartsRunInOrder ==
    (InvocationEnded /\ raised.kind \notin {"solution", "loader", "fixture"}) =>
        /\ PartsOf(executed, InvokedDay) = PartsDue
        /\ PrintedParts(InvokedDay) = PartsDue

\* Both parts ran, in order, and both lines are marked as mismatches.
C8_Witness ==
    /\ pc = "moduleDone"
    /\ ~args.part.given
    /\ executed = << <<1, 1>>, <<1, 2>> >>
    /\ Len(printed) = 2
    /\ printed[1].part = 1 /\ printed[1].mark = "mismatch"
    /\ printed[2].part = 2 /\ printed[2].mark = "mismatch"

\* C9: when a solution function raises it has been invoked exactly once, no
\* line is printed for that part and nothing more is executed: part 2 does not
\* run after part 1 raised, and under --run-all no later day is loaded or run.
C9_RaiseEndsTheRun ==
    raised.kind = "solution" =>
        /\ pc = "failed"
        /\ executed # <<>>
        /\ executed[Len(executed)] = <<raised.day, raised.part>>
        /\ Cardinality({k \in 1..Len(executed) :
                            executed[k] = <<raised.day, raised.part>>}) = 1
        /\ \A k \in 1..Len(printed) :
               ~(printed[k].day = raised.day /\ printed[k].part = raised.part)
        /\ loaded[Len(loaded)] = raised.day
        /\ (raised.part = 1 =>
               \A k \in 1..Len(executed) : executed[k] # <<raised.day, 2>>)

\* Part 1 of the first module raised under --run-all, with a module still due.
C9_Witness ==
    /\ raised.kind = "solution"
    /\ args.mode = "all"
    /\ raised.part = 1
    /\ queue # <<>>
    /\ pc = "failed"

\* C10: a fixture entered at the prompts (non-empty lines, an expected result
\* without surrounding whitespace) comes back: get_data() gives the lines as
\* entered, in order and without a header line, get_expected_result() gives the
\* expected result as entered, and a later call for the same day and selector
\* gives the same without prompting again.
C10_EnteredFixtureComesBack ==
    LET path == PathOf(puzzle.filename)
    IN  (/\ JustParsed
         /\ path \in DOMAIN entered
         /\ Strip(entered[path].expected) = entered[path].expected) =>
            /\ pc = "import"
            /\ [k \in 1..Len(inputLines) |-> StripEol(inputLines[k])]
                   = entered[path].lines
            /\ expected = [kind |-> "text", text |-> entered[path].expected]
            /\ (call.prompted => entered[path].run = run)
====
